---- MODULE Spec2Model ----
(***************************************************************************)
(* A model of searxng-mul-mcp: the fan-out query executor                  *)
(* (SearXNGApiClient.search / searchSingle), the search tool built on it   *)
(* (SearXNGSearchTool.executeSearch / formatResponse) and the session map  *)
(* of the HTTP transport (HttpTransport.setupRoutes).                      *)
(*                                                                         *)
(* JavaScript runs the handlers on one event loop: an action of this       *)
(* module is one uninterrupted run of code, from an event (a call, a       *)
(* settled fetch, a timer, an HTTP request) to the next suspension point.  *)
(***************************************************************************)
EXTENDS Integers, Sequences, FiniteSets, TLC

VARIABLES
  \* ---- fan-out executor and search tool
  queries,      \* the argument of executeSearch / search
  sent,         \* the upstream GET requests issued so far, in order (task indices)
  call,         \* call[i]: where searchSingle of task i is suspended
  upstream,     \* upstream[i]: what the backend / network did to request i
  timer,        \* timer[i]: the setTimeout of task i
  aborted,      \* the AbortControllers whose abort() has run
  task,         \* task[i]: the promise searchTasks[i]
  arrival,      \* the task indices in the order in which the tasks settled
  searchState,  \* the promise returned by SearXNGApiClient.search
  multiResult,  \* its value (or the message of the Error it rejects with)
  toolState,    \* the promise returned by SearXNGSearchTool.executeSearch
  toolResponse, \* its value (or the message of the Error it rejects with)
  \* ---- the handler of the search tool
  args,          \* the argument of handleSearchTool (NotCalled: no tool call)
  handlerState,  \* the promise returned by handleSearchTool
  handlerResult, \* its value (or the message of the Error it rejects with)
  options,       \* the SearchOptions that executeSearch hands to search
  urls,          \* urls[i]: the search parameters of the request of task i
  \* ---- formatResponse on its own
  formatInput,   \* the MultiSearchResult it is applied to (NotCalled: none)
  formatOutput   \* what it returns or throws

\* What the caller supplies, and what the requests are built from.
inputVars == <<args, options, urls, formatInput, formatOutput>>

searchVars == <<queries, sent, call, upstream, timer, aborted, task, arrival,
                searchState, multiResult, toolState, toolResponse,
                handlerState, handlerResult, inputVars>>

VARIABLES
  \* ---- HTTP transport
  transports,      \* HttpTransport.transports: session id -> connection
  conns,           \* the StreamableHTTPServerTransport objects made so far
  connecting,      \* the POST handlers that await server.connect: connection, header
  uuids,           \* the number of calls of randomUUID so far
  everRegistered,  \* history: every session id that has been a key of the map
  terminated,      \* history: the session ids a DELETE has terminated
  last,            \* the request answered last, with the map before and after
  handledBy,       \* the connection whose handleRequest took that request (0: none)
  serverTransport, \* the connection given to the latest this.server.connect (0: none)
  \* ---- HTTP transport: start and stop
  httpServer,        \* this.httpServer: "none", "listening", "closing", "closed"
  running,           \* this.running
  sockets,           \* the number of open client connections of httpServer
  forceCloseTimeout, \* the timer of 1000 ms of stop
  fallbackTimeout,   \* the timer of 500 ms of stop
  stopState,         \* stopState[k]: the promise returned by the k-th call of stop
  swept,             \* history: Object.keys(this.transports) at the sweep of stop
  stopLog,           \* history: what stop did, in order
  \* ---- main
  env,               \* process.env: SEARXNG_URL, USERNAME, PASSWORD, TRANSPORT, PORT
  argv,              \* the command line as yargs parsed it: transport, host, port
  config,            \* the Config of main once validateConfig has run
  transport,         \* the transport main has created: "none", "http", "stdio"
  port,              \* HttpTransport.port
  awaiting,          \* the calls of stop that a shutdown handler awaits
  exitCode           \* whether process.exit has been called, and its argument

sessionVars == <<transports, conns, connecting, uuids, everRegistered, terminated, last,
                 handledBy, serverTransport>>
mainVars == <<env, argv, config, transport, port, awaiting, exitCode>>
stopVars == <<httpServer, running, sockets, forceCloseTimeout, fallbackTimeout, stopState,
              swept, stopLog, mainVars>>
httpVars == <<sessionVars, stopVars>>

vars == <<searchVars, httpVars>>

----------------------------------------------------------------------------
\* Bounds of the model.

MaxQueries == 2

\* The number of connections (StreamableHTTPServerTransport objects) created.
MaxSessions == 2

\* The number of client connections the HTTP server has open at a time.
MaxSockets == 1

\* The number of calls of stop (and of signals handled).
MaxStops == 2

----------------------------------------------------------------------------
\* Values.

\* JavaScript null, and a JavaScript string, as values of one kind.
Null == [kind |-> "null"]
Str(s) == [kind |-> "string", text |-> s]

\* The query strings a caller supplies (non-blank).
QueryStrings == {"a", "b"}

RECURSIVE SeqsUpTo(_, _)
SeqsUpTo(S, n) ==
  IF n = 0 THEN {<<>>}
  ELSE LET shorter == SeqsUpTo(S, n - 1)
       IN  shorter \cup {Append(s, x) : s \in {t \in shorter : Len(t) = n - 1}, x \in S}

\* The HTTP statuses the backend answers with; Response.ok is status in 200..299.
Statuses == {200, 404}
\* (Without the test of response.ok every response counts as 2xx.)
AnyStatusOk(status) == TRUE
ResponseOk(status) == status >= 200 /\ status <= 299
StatusText(status) == IF status = 404 THEN "Not Found" ELSE "OK"

\* Two backend result items (SearchResultItem; engine stands for the fields
\* the tool does not keep).
ItemA == [title |-> "A", url |-> "u1", content |-> "c1", engine |-> "e1"]
ItemB == [title |-> "B", url |-> "u2", content |-> "c2", engine |-> "e2"]

\* What response.json() can resolve to for the request of query q: a
\* SearchResult with items, one without items, a JSON object that has no
\* results list, and JSON null. The cast "as SearchResult" checks nothing.
FullBody(q) ==
  [kind |-> "object", query |-> q, number_of_results |-> 2, results |-> <<ItemA, ItemB>>]
EmptyBody(q) ==
  [kind |-> "object", query |-> q, number_of_results |-> 0, results |-> <<>>]
ShapelessBody(q) == [kind |-> "object", query |-> q]
Bodies(q) == {FullBody(q), EmptyBody(q), ShapelessBody(q), Null}

\* More JavaScript values: undefined, a number, an array.
Undefined == [kind |-> "undefined"]
Num(n) == [kind |-> "number", value |-> n]
Arr(items) == [kind |-> "array", items |-> items]
PlainObject == [kind |-> "object"]

\* No call has been made.
NotCalled == [kind |-> "not called"]

\* The number NaN.
NaN == [kind |-> "NaN"]

\* JavaScript truthiness.
Truthy(v) ==
  CASE v.kind \in {"null", "undefined", "NaN"} -> FALSE
    [] v.kind = "string" -> v.text # ""
    [] v.kind = "number" -> v.value # 0
    [] OTHER -> TRUE

\* String.prototype.trim: the string without its leading and trailing
\* white space.
IsWhiteSpace(ch) == ch \in {" ", "\t", "\n"}
RECURSIVE TrimStart(_)
TrimStart(text) ==
  IF Len(text) > 0 /\ IsWhiteSpace(SubSeq(text, 1, 1))
  THEN TrimStart(SubSeq(text, 2, Len(text)))
  ELSE text
RECURSIVE TrimEnd(_)
TrimEnd(text) ==
  IF Len(text) > 0 /\ IsWhiteSpace(SubSeq(text, Len(text), Len(text)))
  THEN TrimEnd(SubSeq(text, 1, Len(text) - 1))
  ELSE text
Trim(text) == TrimEnd(TrimStart(text))

\* String.prototype.toLowerCase, on the letters of ASCII.
UpperLetters == "ABCDEFGHIJKLMNOPQRSTUVWXYZ"
LowerLetters == "abcdefghijklmnopqrstuvwxyz"
ToLowerChar(ch) ==
  IF \E k \in 1..26 : SubSeq(UpperLetters, k, k) = ch
  THEN LET k == CHOOSE k \in 1..26 : SubSeq(UpperLetters, k, k) = ch
       IN  SubSeq(LowerLetters, k, k)
  ELSE ch
RECURSIVE ToLowerCase(_)
ToLowerCase(text) ==
  IF Len(text) = 0 THEN text
  ELSE ToLowerChar(SubSeq(text, 1, 1)) \o ToLowerCase(SubSeq(text, 2, Len(text)))

----------------------------------------------------------------------------
\* isValidLanguageCode

VALID_LANGUAGE_CODES ==
  {"af", "ar", "be", "bg", "ca", "cs", "cy", "da", "de", "el", "en", "es", "et", "eu",
   "fa", "fi", "fr", "ga", "gd", "gl", "he", "hi", "hr", "hu", "id", "is", "it", "ja",
   "kn", "ko", "lt", "lv", "ml", "mr", "nb", "nl", "pl", "pt", "ro", "ru", "sk", "sl",
   "sq", "sv", "ta", "te", "th", "tr", "uk", "ur", "vi", "zh",
   "ar-sa", "bg-bg", "cs-cz", "da-dk", "de-at", "de-be", "de-ch", "de-de", "el-gr",
   "en-au", "en-ca", "en-gb", "en-ie", "en-in", "en-nz", "en-ph", "en-pk", "en-sg",
   "en-us", "en-za", "es-ar", "es-cl", "es-co", "es-es", "es-mx", "es-pe", "et-ee",
   "fi-fi", "fr-be", "fr-ca", "fr-ch", "fr-fr", "hu-hu", "id-id", "it-ch", "it-it",
   "ja-jp", "ko-kr", "nb-no", "nl-be", "nl-nl", "pl-pl", "pt-br", "pt-pt", "ro-ro",
   "ru-ru", "sv-se", "th-th", "tr-tr", "vi-vn", "zh-cn", "zh-hk", "zh-tw"}

\* /^[a-z]{2,3}(-[a-z]{2})?$/.test(text)
IsLowerLetter(ch) == \E k \in 1..26 : SubSeq(LowerLetters, k, k) = ch
AllLowerLetters(text) == \A k \in 1..Len(text) : IsLowerLetter(SubSeq(text, k, k))
MatchesLanguageFormat(text) ==
  \/ Len(text) \in {2, 3} /\ AllLowerLetters(text)
  \/ /\ Len(text) \in {5, 6}
     /\ AllLowerLetters(SubSeq(text, 1, Len(text) - 3))
     /\ SubSeq(text, Len(text) - 2, Len(text) - 2) = "-"
     /\ AllLowerLetters(SubSeq(text, Len(text) - 1, Len(text)))

\* isValidLanguageCode(language), for a string.
\* (A test of the format alone lets a code pass that is not in the list.)
isValidLanguageFormat(language) ==
  /\ language # ""
  /\ MatchesLanguageFormat(ToLowerCase(Trim(language)))
isValidLanguageCode(language) ==
  /\ language # ""
  /\ MatchesLanguageFormat(ToLowerCase(Trim(language)))
  /\ ToLowerCase(Trim(language)) \in VALID_LANGUAGE_CODES

----------------------------------------------------------------------------
\* SearXNGApiClient.searchSingle

\* What searchSingle settles with: a value, or an Error with a message.
Resolved(data) == [ok |-> TRUE, data |-> data]
Threw(message) == [ok |-> FALSE, message |-> message]

\* The catch block of searchSingle: everything thrown inside the try block is
\* an Error (a TypeError of fetch, the AbortError of the signal, the Error of
\* a non-2xx status, the SyntaxError of response.json()) and is thrown again
\* with the query in its message.
SearchSingleCatch(query, message) ==
  Threw("Search failed for query \"" \o query \o "\": " \o message)

\* Each call of searchSingle makes its own AbortController, and hands its
\* signal to its own fetch: the controller of task i is controller i.
SharedController(i) == 1
ControllerOf(i) == i

\* searchSingle has no loop: after a failed fetch it throws, whatever the
\* number of attempts made so far.
RetryUpToThree(attempts) == attempts < 3
ShouldRetry(attempts) == FALSE

----------------------------------------------------------------------------
\* SearXNGApiClient.search

\* if (!queries.length) throw ...
NeverEmpty(qs) == FALSE
IsEmptyBatch(qs) == Len(qs) = 0

EmptyBatchMessage == "At least one search query is required"

\* The async callback of queries.map: the promise searchTasks[i] once
\* searchSingle has settled. Its try/catch turns a thrown Error into a
\* failed outcome, so the promise is never rejected.
SearchTaskNoCatch(query, settled) ==
  IF settled.ok
  THEN [state |-> "fulfilled",
        value |-> [query |-> query, success |-> TRUE, data |-> settled.data, error |-> Null]]
  ELSE [state |-> "rejected", reason |-> settled.message]
SearchTask(query, settled) ==
  [state |-> "fulfilled",
   value |-> IF settled.ok
             THEN [query |-> query, success |-> TRUE, data |-> settled.data, error |-> Null]
             ELSE [query |-> query, success |-> FALSE, data |-> Null,
                   error |-> Str(settled.message)]]

\* Promise.all(searchTasks): rejected with the reason of the first task that
\* is rejected; fulfilled, once every task is fulfilled, with the values in
\* the order of searchTasks, which is the order of queries; pending otherwise.
\* order lists the settled tasks in the order in which they settled.
FirstRejected(tasks, order) ==
  LET k == CHOOSE k \in 1..Len(order) :
             /\ tasks[order[k]].state = "rejected"
             /\ \A m \in 1..(k - 1) : tasks[order[m]].state # "rejected"
  IN  order[k]
PromiseAllByArrival(tasks, order) ==
  IF \E i \in DOMAIN tasks : tasks[i].state = "rejected"
  THEN [state |-> "rejected", reason |-> tasks[FirstRejected(tasks, order)].reason]
  ELSE IF \A i \in DOMAIN tasks : tasks[i].state = "fulfilled"
  THEN [state |-> "fulfilled", value |-> [k \in 1..Len(order) |-> tasks[order[k]].value]]
  ELSE [state |-> "pending"]
PromiseAll(tasks, order) ==
  IF \E i \in DOMAIN tasks : tasks[i].state = "rejected"
  THEN [state |-> "rejected", reason |-> tasks[FirstRejected(tasks, order)].reason]
  ELSE IF \A i \in DOMAIN tasks : tasks[i].state = "fulfilled"
  THEN [state |-> "fulfilled", value |-> [i \in DOMAIN tasks |-> tasks[i].value]]
  ELSE [state |-> "pending"]

\* The summary statistics of search: results.filter(...).length, twice.
SummaryByData(qs, results) ==
  [total |-> Len(qs),
   successful |-> Cardinality({i \in DOMAIN results : Truthy(results[i].data)}),
   failed |-> Cardinality({i \in DOMAIN results : ~results[i].success})]
Summary(qs, results) ==
  [total |-> Len(qs),
   successful |-> Cardinality({i \in DOMAIN results : results[i].success}),
   failed |-> Cardinality({i \in DOMAIN results : ~results[i].success})]

\* search after "await Promise.all(searchTasks)": the promise search returns.
SearchContinuation(qs, all) ==
  IF all.state = "fulfilled"
  THEN [state |-> "fulfilled",
        value |-> [queries |-> qs, results |-> all.value, summary |-> Summary(qs, all.value)]]
  ELSE IF all.state = "rejected"
  THEN [state |-> "rejected", value |-> Str(all.reason)]
  ELSE [state |-> "pending", value |-> Null]

----------------------------------------------------------------------------
\* SearXNGSearchTool.formatResponse and executeSearch

\* result.data.results.map(...) throws a TypeError when data has no results.
EntryThrows(result) ==
  /\ result.success
  /\ Truthy(result.data)
  /\ "results" \notin DOMAIN result.data

FormatItem(item) == [title |-> item.title, link |-> item.url, snippet |-> item.content]

\* The callback of multiResult.results.map in formatResponse.
\* (With ?? in place of || an empty message is kept.)
FormatEntryNullish(result) ==
  IF result.success /\ Truthy(result.data)
  THEN [query |-> result.query,
        results |-> [k \in DOMAIN result.data.results |-> FormatItem(result.data.results[k])],
        total_results |-> result.data.number_of_results,
        success |-> TRUE]
  ELSE [query |-> result.query,
        results |-> <<>>,
        total_results |-> 0,
        success |-> FALSE,
        error |-> IF result.error.kind = "string"
                  THEN result.error.text
                  ELSE "Unknown error"]
FormatEntry(result) ==
  IF result.success /\ Truthy(result.data)
  THEN [query |-> result.query,
        results |-> [k \in DOMAIN result.data.results |-> FormatItem(result.data.results[k])],
        total_results |-> result.data.number_of_results,
        success |-> TRUE]
  ELSE [query |-> result.query,
        results |-> <<>>,
        total_results |-> 0,
        success |-> FALSE,
        error |-> IF Truthy(result.error) /\ result.error.text # ""
                  THEN result.error.text
                  ELSE "Unknown error"]

formatResponse(mr) ==
  IF \E i \in DOMAIN mr.results : EntryThrows(mr.results[i])
  THEN Threw("Cannot read properties of undefined (reading 'map')")
  ELSE Resolved([searches |-> [i \in DOMAIN mr.results |-> FormatEntry(mr.results[i])],
                 summary |-> [total_queries |-> mr.summary.total,
                              successful_queries |-> mr.summary.successful,
                              failed_queries |-> mr.summary.failed]])

\* executeSearch after "await this.apiClient.search(queries, options)": the
\* try block also holds the call of formatResponse, and the catch block
\* throws a new Error with a prefixed message.
ExecuteSearchContinuation(searched) ==
  IF searched.state = "fulfilled"
  THEN LET formatted == formatResponse(searched.value)
       IN  IF formatted.ok
           THEN [state |-> "fulfilled", value |-> formatted.data]
           ELSE [state |-> "rejected",
                 value |-> Str("Search execution failed: " \o formatted.message)]
  ELSE IF searched.state = "rejected"
  THEN [state |-> "rejected", value |-> Str("Search execution failed: " \o searched.value.text)]
  ELSE [state |-> "pending", value |-> Null]

----------------------------------------------------------------------------
\* SearXNGMCPServer.handleSearchTool

\* The arguments of a call of the search tool: params.arguments is optional,
\* and nothing checks it against the input schema before the handler runs.
QueriesArguments ==
  {Undefined, Null, Num(0), Str("a"), PlainObject, Arr(<<>>),
   Arr(<<Str("a")>>), Arr(<<Str("")>>), Arr(<<Str(" \t")>>),
   Arr(<<Str("a"), Num(7)>>), Arr(<<Str("a"), Null>>), Arr(<<Str("a"), Str(" ")>>),
   Arr(<<Str(" a"), Str("b")>>)}
SafesearchArguments ==
  {Undefined, Num(-1), Num(0), Num(1), Num(2), Num(3), Str("1")}
\* The language argument: absent, not a string, codes of the list as they
\* are or with capitals and white space around them, well-formed codes that
\* are not in the list, and strings that are not of the format.
LanguageArguments ==
  {Undefined, Num(5), Str(""), Str("en"), Str("EN"), Str(" en\t"), Str("zh-cn"),
   Str(" Zh-CN "), Str("zz"), Str("xx-yy"), Str("eng"), Str("en-usa"), Str("en_us"),
   Str("e n"), Str("english")}
ToolArguments ==
  {Undefined}
    \cup {[kind |-> "object", queries |-> q, safesearch |-> ss, language |-> Undefined] :
            q \in QueriesArguments, ss \in SafesearchArguments}
    \cup {[kind |-> "object", queries |-> q, safesearch |-> ss, language |-> lang] :
            q \in {Arr(<<Str("a")>>), Arr(<<Str(" a"), Str("b")>>)},
            ss \in {Undefined, Num(1)}, lang \in LanguageArguments}

QueriesRequiredMessage == "queries parameter is required and must be a non-empty array"
QueriesStringsMessage == "All queries must be non-empty strings"
SafesearchRangeMessage == "safesearch must be between 0 and 2"

\* typeof query !== "string" || query.trim().length === 0
BadQuery(query) == query.kind # "string" \/ Len(Trim(query.text)) = 0

\* typeof args.safesearch === "number" ? args.safesearch : undefined
SafesearchOf(a) == IF a.safesearch.kind = "number" THEN a.safesearch ELSE Undefined

\* typeof args.language === "string" ? args.language : undefined
LanguageOf(a) == IF a.language.kind = "string" THEN a.language ELSE Undefined

\* safesearch !== undefined && (safesearch < 0 || safesearch > 2)
OutOfRange(safesearch) ==
  safesearch.kind # "undefined" /\ (safesearch.value < 0 \/ safesearch.value > 2)

\* handleSearchTool up to the call of executeSearch: what it throws, or the
\* arguments it hands on. Reading args.queries of undefined is a TypeError.
ValidateArguments(a) ==
  IF a.kind = "undefined"
  THEN Threw("Cannot read properties of undefined (reading 'queries')")
  ELSE IF ~Truthy(a.queries) \/ a.queries.kind # "array" \/ Len(a.queries.items) = 0
  THEN Threw(QueriesRequiredMessage)
  ELSE IF \E k \in 1..Len(a.queries.items) : BadQuery(a.queries.items[k])
  THEN Threw(QueriesStringsMessage)
  ELSE IF OutOfRange(SafesearchOf(a))
  THEN Threw(SafesearchRangeMessage)
  ELSE Resolved([queries |-> [k \in 1..Len(a.queries.items) |-> a.queries.items[k].text],
                 options |-> [safesearch |-> SafesearchOf(a), language |-> LanguageOf(a)]])

\* JSON.stringify(result, null, 2): the text of a value, kept as the value
\* it is the text of.
JsonText(value) == [kind |-> "json text", of |-> value]

\* handleSearchTool after "await this.searchTool.executeSearch(...)".
HandleSearchToolContinuation(executed) ==
  IF executed.state = "fulfilled"
  THEN [state |-> "fulfilled",
        value |-> [content |-> <<[type |-> "text", text |-> JsonText(executed.value)]>>]]
  ELSE IF executed.state = "rejected"
  THEN [state |-> "rejected", value |-> Str("Search failed: " \o executed.value.text)]
  ELSE [state |-> "pending", value |-> Null]

\* searchSingle: the language parameter of the URL (undefined: none). It is
\* appended for a truthy language that isValidLanguageCode accepts, trimmed
\* and in lower case.
LanguageParam(language) ==
  IF Truthy(language) /\ isValidLanguageCode(language.text)
  THEN Str(ToLowerCase(Trim(language.text)))
  ELSE Undefined

\* searchSingle: the search parameters of the URL. safesearch is appended
\* when it is not undefined, 0 included.
\* (A test of the value itself drops the level 0.)
SearchParamsIfTruthy(query, opts) ==
  [q |-> query, format |-> "json",
   safesearch |-> IF Truthy(opts.safesearch)
                  THEN Str(ToString(opts.safesearch.value)) ELSE Undefined,
   language |-> LanguageParam(opts.language)]
SearchParams(query, opts) ==
  [q |-> query, format |-> "json",
   safesearch |-> IF opts.safesearch.kind # "undefined"
                  THEN Str(ToString(opts.safesearch.value)) ELSE Undefined,
   language |-> LanguageParam(opts.language)]

\* The options of a call of executeSearch that names none.
NoOptions == [safesearch |-> Undefined, language |-> Undefined]

----------------------------------------------------------------------------
\* The fan-out executor as a state machine.

Tasks == 1..Len(queries)

\* The number of upstream GET requests issued for task i.
Requests(i) == Cardinality({k \in 1..Len(sent) : sent[k] = i})

RECURSIVE Ascending(_)
Ascending(S) ==
  IF S = {} THEN <<>>
  ELSE LET least == CHOOSE x \in S : \A y \in S : x <= y
       IN  <<least>> \o Ascending(S \ {least})

\* The continuations that run once search has become searched: the rest of
\* executeSearch and, in a tool call, the rest of handleSearchTool.
Continue(searched) ==
  LET executed == ExecuteSearchContinuation(searched)
      handled == HandleSearchToolContinuation(executed)
  IN  /\ searchState' = searched.state
      /\ multiResult' = searched.value
      /\ toolState' = executed.state
      /\ toolResponse' = executed.value
      /\ IF args = NotCalled
         THEN UNCHANGED <<handlerState, handlerResult>>
         ELSE handlerState' = handled.state /\ handlerResult' = handled.value

\* The continuations that run once the tasks are t and have settled in the
\* order arr: Promise.all, the rest of search, the rest of executeSearch.
Await(t, arr) == Continue(SearchContinuation(queries, PromiseAll(t, arr)))

\* A promise settles once: after search has settled, a task that settles
\* later changes nothing.
Resume(t, arr) ==
  IF searchState = "pending"
  THEN Await(t, arr)
  ELSE UNCHANGED <<searchState, multiResult, toolState, toolResponse,
                   handlerState, handlerResult>>

\* searchSingle of task i settles with settled; upstream[i] becomes event.
Settle(i, event, settled) ==
  /\ call' = [call EXCEPT ![i] = "done"]
  /\ upstream' = [upstream EXCEPT ![i] = event]
  /\ task' = [task EXCEPT ![i] = SearchTask(queries[i], settled)]
  /\ arrival' = Append(arrival, i)
  /\ Resume(task', arrival')

\* executeSearch(qs, ...) with the options opts calls search, which throws
\* on an empty list and otherwise runs every callback of queries.map up to
\* its first await: each builds its URL, arms its timer and calls fetch. Then
\* search awaits Promise.all.
Launch(qs, opts) ==
  IF IsEmptyBatch(qs)
  THEN /\ Continue([state |-> "rejected", value |-> Str(EmptyBatchMessage)])
       /\ UNCHANGED <<sent, call, upstream, timer, task, urls>>
  ELSE /\ sent' = [i \in 1..Len(qs) |-> i]
       /\ call' = [i \in 1..Len(qs) |-> "fetch"]
       /\ upstream' = [i \in 1..Len(qs) |-> [event |-> "pending"]]
       /\ timer' = [i \in 1..Len(qs) |-> "armed"]
       /\ task' = [i \in 1..Len(qs) |-> [state |-> "pending"]]
       /\ urls' = [i \in 1..Len(qs) |-> SearchParams(qs[i], opts)]
       /\ Await(task', <<>>)

\* A call of executeSearch with the query list queries and no options.
ExecuteSearch ==
  /\ args = NotCalled
  /\ formatInput = NotCalled
  /\ toolState = "idle"
  /\ Launch(queries, options)
  /\ UNCHANGED <<queries, aborted, arrival, args, options, formatInput, formatOutput,
                 httpVars>>

\* A call of the search tool with the arguments args: the checks of
\* handleSearchTool, and with arguments that pass them the call of
\* executeSearch with args.queries and the options taken from args.
HandleSearchTool ==
  /\ args # NotCalled
  /\ handlerState = "idle"
  /\ LET checked == ValidateArguments(args)
     IN  IF checked.ok
         THEN /\ queries' = checked.data.queries
              /\ options' = checked.data.options
              /\ Launch(queries', options')
         ELSE /\ handlerState' = "rejected"
              /\ handlerResult' = Str(checked.message)
              /\ UNCHANGED <<queries, options, sent, call, upstream, timer, task, urls,
                             searchState, multiResult, toolState, toolResponse>>
  /\ UNCHANGED <<aborted, arrival, args, formatInput, formatOutput, httpVars>>

\* formatResponse applied to formatInput.
FormatResponse ==
  /\ formatInput # NotCalled
  /\ formatOutput = NotCalled
  /\ formatOutput' = formatResponse(formatInput)
  /\ UNCHANGED <<queries, sent, call, upstream, timer, aborted, task, arrival,
                 searchState, multiResult, toolState, toolResponse, handlerState,
                 handlerResult, args, options, urls, formatInput, httpVars>>

\* fetch of task i rejects: the request failed on the network. The timer is
\* not cleared on this path.
FetchRejects(i) ==
  /\ call[i] = "fetch"
  /\ IF ShouldRetry(Requests(i))
     THEN /\ sent' = Append(sent, i)
          /\ UNCHANGED <<call, upstream, task, arrival, searchState, multiResult,
                         toolState, toolResponse, handlerState, handlerResult>>
     ELSE /\ Settle(i, [event |-> "network"], SearchSingleCatch(queries[i], "fetch failed"))
          /\ UNCHANGED sent
  /\ UNCHANGED <<queries, timer, aborted, inputVars, httpVars>>

\* fetch of task i resolves with the response headers: the timer is cleared;
\* a status outside 2xx is thrown, otherwise the body is awaited.
FetchResolves(i, status) ==
  /\ call[i] = "fetch"
  /\ timer' = [timer EXCEPT ![i] = "cleared"]
  /\ IF ResponseOk(status)
     THEN /\ call' = [call EXCEPT ![i] = "json"]
          /\ upstream' = [upstream EXCEPT ![i] = [event |-> "headers", status |-> status]]
          /\ UNCHANGED <<task, arrival, searchState, multiResult, toolState, toolResponse,
                         handlerState, handlerResult>>
     ELSE Settle(i, [event |-> "status", status |-> status],
                 SearchSingleCatch(queries[i],
                   "HTTP " \o ToString(status) \o ": " \o StatusText(status)))
  /\ UNCHANGED <<queries, sent, aborted, inputVars, httpVars>>

\* response.json() of task i resolves with the parsed body.
JsonResolves(i, body) ==
  /\ call[i] = "json"
  /\ Settle(i, [event |-> "body", status |-> upstream[i].status, body |-> body],
            Resolved(body))
  /\ UNCHANGED <<queries, sent, timer, aborted, inputVars, httpVars>>

\* response.json() of task i rejects: the body is not JSON.
JsonRejects(i) ==
  /\ call[i] = "json"
  /\ Settle(i, [event |-> "unparsable", status |-> upstream[i].status],
            SearchSingleCatch(queries[i], "Unexpected token < in JSON at position 0"))
  /\ UNCHANGED <<queries, sent, timer, aborted, inputVars, httpVars>>

\* The timer of task i fires: abort() of its controller, which makes every
\* request still in flight under that controller's signal reject with an
\* AbortError. A request that has already failed is not in flight.
TimeoutFires(i) ==
  /\ timer[i] = "armed"
  /\ timer' = [timer EXCEPT ![i] = "fired"]
  /\ aborted' = aborted \cup {ControllerOf(i)}
  /\ LET hit == {j \in Tasks : call[j] \in {"fetch", "json"}
                               /\ ControllerOf(j) = ControllerOf(i)}
     IN  /\ call' = [j \in Tasks |-> IF j \in hit THEN "done" ELSE call[j]]
         /\ upstream' = [j \in Tasks |->
                           IF j \in hit THEN [event |-> "aborted"] ELSE upstream[j]]
         /\ task' = [j \in Tasks |->
                       IF j \in hit
                       THEN SearchTask(queries[j],
                              SearchSingleCatch(queries[j], "This operation was aborted"))
                       ELSE task[j]]
         /\ arrival' = arrival \o Ascending(hit)
         /\ Resume(task', arrival')
  /\ UNCHANGED <<queries, sent, inputVars, httpVars>>

\* Nothing has been called: no request, no promise.
SearchIdle ==
  /\ sent = <<>>
  /\ call = [i \in Tasks |-> "idle"]
  /\ upstream = [i \in Tasks |-> [event |-> "none"]]
  /\ timer = [i \in Tasks |-> "unset"]
  /\ aborted = {}
  /\ task = [i \in Tasks |-> [state |-> "unborn"]]
  /\ arrival = <<>>
  /\ searchState = "idle"
  /\ multiResult = Null
  /\ toolState = "idle"
  /\ toolResponse = Null
  /\ handlerState = "idle"
  /\ handlerResult = Null
  /\ options = NoOptions
  /\ urls = <<>>
  /\ formatOutput = NotCalled

\* Either executeSearch is about to be called with a query list, or the
\* search tool with some arguments.
SearchInit ==
  /\ \/ queries \in SeqsUpTo(QueryStrings, MaxQueries) /\ args = NotCalled
     \/ queries = <<>> /\ args \in ToolArguments
  /\ formatInput = NotCalled
  /\ SearchIdle

SearchNext ==
  \/ ExecuteSearch
  \/ HandleSearchTool
  \/ \E i \in Tasks : FetchRejects(i)
  \/ \E i \in Tasks, status \in Statuses : FetchResolves(i, status)
  \/ \E i \in Tasks : \E body \in Bodies(queries[i]) : JsonResolves(i, body)
  \/ \E i \in Tasks : JsonRejects(i)
  \/ \E i \in Tasks : TimeoutFires(i)

\* The outcomes a MultiSearchResult can hold for the query q: the type allows
\* any data with success = true and any error, null included, without it.
Outcomes(q) ==
  {[query |-> q, success |-> TRUE, data |-> body, error |-> Null] : body \in Bodies(q)}
    \cup {[query |-> q, success |-> FALSE, data |-> Null, error |-> e] :
            e \in {Str("Search failed for query \"" \o q \o "\": fetch failed"), Str(""), Null}}

MultiSearchResults ==
  UNION {{[queries |-> qs, results |-> rs, summary |-> Summary(qs, rs)] :
            rs \in {r \in [1..Len(qs) -> UNION {Outcomes(q) : q \in QueryStrings}] :
                      \A i \in 1..Len(qs) : r[i].query = qs[i]}} :
         qs \in SeqsUpTo(QueryStrings, MaxQueries)}

\* formatResponse is about to be applied to a MultiSearchResult.
FormatInit ==
  /\ queries = <<>>
  /\ args = NotCalled
  /\ formatInput \in MultiSearchResults
  /\ SearchIdle

FormatNext == FormatResponse

----------------------------------------------------------------------------
\* HttpTransport: the session map and the routes of /mcp.

\* The header mcp-session-id of a request: absent (undefined) or a string.
NoHeader == [present |-> FALSE, value |-> ""]
Header(v) == [present |-> TRUE, value |-> v]

\* JavaScript truthiness of req.headers['mcp-session-id'].
HasSessionId(h) == h.present /\ h.value # ""

\* randomUUID(): the n-th call returns a value no other call returns.
UuidRepeated(n) == "uuid-1"
Uuid(n) == "uuid-" \o ToString(n)

\* this.transports is an object literal: besides its own keys, a lookup
\* finds the properties it inherits from Object.prototype.
ObjectPrototypeKeys == {"constructor"}

Headers ==
  {NoHeader, Header("")}
    \cup {Header(Uuid(n)) : n \in 1..MaxSessions}
    \cup {Header(k) : k \in ObjectPrototypeKeys}

\* this.transports[sessionId]
\* (A lookup that ignores the key gives the connection of the oldest session.)
LookupFirst(map, key) ==
  IF key \in DOMAIN map
  THEN [kind |-> "transport",
        conn |-> CHOOSE c \in {map[k] : k \in DOMAIN map} :
                   \A k \in DOMAIN map : c <= map[k]]
  ELSE IF key \in ObjectPrototypeKeys THEN [kind |-> "inherited"]
  ELSE [kind |-> "undefined"]
Lookup(map, key) ==
  IF key \in DOMAIN map THEN [kind |-> "transport", conn |-> map[key]]
  ELSE IF key \in ObjectPrototypeKeys THEN [kind |-> "inherited"]
  ELSE [kind |-> "undefined"]
Found(map, key) == Lookup(map, key).kind # "undefined"

\* delete this.transports[key]
DeleteNothing(map, key) == map
Delete(map, key) == [k \in DOMAIN map \ {key} |-> map[k]]

\* sessionIdGenerator: () => randomUUID(), at the n-th call of randomUUID.
\* (A generator that numbers the open sessions gives a closed session's id
\* to a later session.)
CountingGenerator(n, map) == Uuid(Cardinality(DOMAIN map) + 1)
sessionIdGenerator(n, map) == Uuid(n)

\* onsessioninitialized: this.transports[sessionId] = transport
ForgetSession(map, sessionId, c) == map
onsessioninitialized(map, sessionId, c) ==
  [k \in DOMAIN map \cup {sessionId} |-> IF k = sessionId THEN c ELSE map[k]]

\* transport.onclose: if (transport.sessionId) delete this.transports[...]
oncloseWithoutDelete(map, connection) == map
onclose(map, connection) ==
  IF connection.sessionId # "" THEN Delete(map, connection.sessionId) ELSE map

\* The branch the POST handler takes.
\* (Without the test of the header in the second branch, an initialize with
\* a stale token makes a session.)
PostBranchAnyInitialize(h, isInitialize, map) ==
  IF HasSessionId(h) /\ Found(map, h.value) THEN "reuse"
  ELSE IF isInitialize THEN "initialize"
  ELSE "invalid"
PostBranch(h, isInitialize, map) ==
  IF HasSessionId(h) /\ Found(map, h.value) THEN "reuse"
  ELSE IF ~HasSessionId(h) /\ isInitialize THEN "initialize"
  ELSE "invalid"

\* The numbers the handlers answer with.
BadRequestStatus == 400
BadRequestCode == -32000
InternalErrorStatus == 500
InternalErrorCode == -32603
\* The status of a response that the connection writes for a request it
\* has handled.
OkStatus == 200
\* A response without a JSON-RPC error envelope carries no code.
NoCode == 0

\* An answered request that carried no session id where one is needed, or
\* an id that was not a key of the map.
TransportError(r) ==
  /\ r.method \in {"POST", "GET", "DELETE"}
  /\ \/ ~HasSessionId(r.header) /\ ~(r.method = "POST" /\ r.init)
     \/ HasSessionId(r.header) /\ r.header.value \notin r.before

\* The record of an answered request; afterRejected tells whether the
\* request answered before it was such a transport error.
Answer(method, h, isInitialize, status, code, before, after, ever, term) ==
  [method |-> method, header |-> h, init |-> isInitialize, status |-> status,
   code |-> code, before |-> before, after |-> after, everBefore |-> ever,
   terminatedBefore |-> term, afterRejected |-> TransportError(last)]

\* No request has been answered.
NoAnswer ==
  [method |-> "none", header |-> NoHeader, init |-> FALSE, status |-> 0,
   code |-> NoCode, before |-> {}, after |-> {}, everBefore |-> {},
   terminatedBefore |-> {}, afterRejected |-> FALSE]

\* A new StreamableHTTPServerTransport: no session id before initialization.
NewConnection == [sessionId |-> "", closed |-> FALSE]

\* A request reaches a handler over an open client connection of a server
\* that has been started.
Serving == httpServer \in {"listening", "closing"} /\ sockets > 0

\* app.post('/mcp'). With the id of a session, the request goes to that
\* session's connection, which answers it (a second initialize is refused by
\* the connection). A lookup that finds an inherited property gives no
\* transport: handleRequest is not a function, and the catch block answers
\* 500. An initialize without id makes a connection and calls
\* this.server.connect with it. Everything else is answered 400.
Post(h, isInitialize) ==
  LET branch == PostBranch(h, isInitialize, transports)
      keys == DOMAIN transports
      found == Lookup(transports, h.value)
  IN
  /\ Serving
  /\ CASE branch = "reuse" ->
            /\ last' = IF found.kind = "transport"
                       THEN IF isInitialize
                            THEN Answer("POST", h, isInitialize, BadRequestStatus,
                                        NoCode, keys, keys, everRegistered, terminated)
                            ELSE Answer("POST", h, isInitialize, OkStatus, NoCode, keys, keys,
                                        everRegistered, terminated)
                       ELSE Answer("POST", h, isInitialize, InternalErrorStatus,
                                   InternalErrorCode, keys, keys, everRegistered, terminated)
            /\ handledBy' = IF found.kind = "transport" THEN found.conn ELSE 0
            /\ UNCHANGED <<conns, connecting, serverTransport>>
       [] branch = "initialize" ->
            /\ Len(conns) < MaxSessions
            /\ conns' = Append(conns, NewConnection)
            /\ connecting' = connecting \cup {[conn |-> Len(conns) + 1, header |-> h]}
            /\ serverTransport' = Len(conns) + 1
            /\ UNCHANGED <<last, handledBy>>
       [] branch = "invalid" ->
            /\ last' = Answer("POST", h, isInitialize, BadRequestStatus, BadRequestCode,
                              keys, keys, everRegistered, terminated)
            /\ handledBy' = 0
            /\ UNCHANGED <<conns, connecting, serverTransport>>
  /\ UNCHANGED <<transports, uuids, everRegistered, terminated, stopVars, searchVars>>

\* server.connect(transport) has resolved for connection c: the POST handler
\* goes on with transport.handleRequest, in which the connection takes a
\* session id from sessionIdGenerator, calls onsessioninitialized and
\* answers the initialize message.
ConnectResolves(c, h) ==
  /\ [conn |-> c, header |-> h] \in connecting
  /\ LET sessionId == sessionIdGenerator(uuids + 1, transports)
     IN  /\ conns' = [conns EXCEPT ![c].sessionId = sessionId]
         /\ transports' = onsessioninitialized(transports, sessionId, c)
         /\ everRegistered' = everRegistered \cup DOMAIN transports'
         /\ last' = Answer("POST", h, TRUE, OkStatus, NoCode,
                           DOMAIN transports, DOMAIN transports', everRegistered, terminated)
  /\ handledBy' = c
  /\ uuids' = uuids + 1
  /\ connecting' = connecting \ {[conn |-> c, header |-> h]}
  /\ UNCHANGED <<terminated, serverTransport, stopVars, searchVars>>

\* server.connect(transport) has raised for connection c: the catch block
\* of the POST handler answers 500. The connection has no session id and
\* is in no map.
ConnectRejects(c, h) ==
  /\ [conn |-> c, header |-> h] \in connecting
  /\ last' = Answer("POST", h, TRUE, InternalErrorStatus, InternalErrorCode,
                    DOMAIN transports, DOMAIN transports, everRegistered, terminated)
  /\ handledBy' = 0
  /\ connecting' = connecting \ {[conn |-> c, header |-> h]}
  /\ UNCHANGED <<transports, conns, uuids, everRegistered, terminated, serverTransport,
                 stopVars, searchVars>>

\* server.connect(transport) has resolved for connection c and
\* transport.handleRequest raises: the catch block of the POST handler
\* answers 500 and does nothing else. The connection calls
\* onsessioninitialized from inside handleRequest, so the raise comes
\* before that call (registered is FALSE) or after it (registered is TRUE).
HandleRequestRaises(c, h, registered) ==
  /\ [conn |-> c, header |-> h] \in connecting
  /\ IF registered
     THEN LET sessionId == sessionIdGenerator(uuids + 1, transports)
          IN  /\ conns' = [conns EXCEPT ![c].sessionId = sessionId]
              /\ transports' = onsessioninitialized(transports, sessionId, c)
              /\ everRegistered' = everRegistered \cup DOMAIN transports'
              /\ uuids' = uuids + 1
     ELSE UNCHANGED <<conns, transports, everRegistered, uuids>>
  /\ last' = Answer("POST", h, TRUE, InternalErrorStatus, InternalErrorCode,
                    DOMAIN transports, DOMAIN transports', everRegistered, terminated)
  /\ handledBy' = 0
  /\ connecting' = connecting \ {[conn |-> c, header |-> h]}
  /\ UNCHANGED <<terminated, serverTransport, stopVars, searchVars>>

\* app.get('/mcp'): the SSE stream of a session.
Get(h) ==
  LET keys == DOMAIN transports
      found == Lookup(transports, h.value)
  IN
  /\ Serving
  /\ last' = IF ~HasSessionId(h) \/ ~Found(transports, h.value)
             THEN Answer("GET", h, FALSE, BadRequestStatus, NoCode, keys, keys,
                         everRegistered, terminated)
             ELSE IF found.kind = "transport"
             THEN Answer("GET", h, FALSE, OkStatus, NoCode, keys, keys,
                         everRegistered, terminated)
             ELSE Answer("GET", h, FALSE, InternalErrorStatus, NoCode, keys, keys,
                         everRegistered, terminated)
  /\ handledBy' = IF HasSessionId(h) /\ found.kind = "transport" THEN found.conn ELSE 0
  /\ UNCHANGED <<transports, conns, connecting, uuids, everRegistered, terminated,
                 serverTransport, stopVars, searchVars>>

\* app.delete('/mcp'): the connection handles the DELETE by closing itself,
\* which runs onclose; then the handler deletes the entry.
DeleteSession(h) ==
  LET keys == DOMAIN transports
      found == Lookup(transports, h.value)
  IN
  /\ Serving
  /\ UNCHANGED <<serverTransport, stopVars, searchVars>>
  /\ IF ~HasSessionId(h) \/ ~Found(transports, h.value)
     THEN /\ last' = Answer("DELETE", h, FALSE, BadRequestStatus, NoCode, keys, keys,
                            everRegistered, terminated)
          /\ handledBy' = 0
          /\ UNCHANGED <<transports, conns, connecting, uuids, everRegistered, terminated>>
     ELSE IF found.kind = "transport"
     THEN LET c == found.conn
          IN  /\ conns' = [conns EXCEPT ![c].closed = TRUE]
              /\ transports' = Delete(onclose(transports, conns[c]), h.value)
              /\ terminated' = terminated \cup {h.value}
              /\ last' = Answer("DELETE", h, FALSE, OkStatus, NoCode, keys, DOMAIN transports',
                                everRegistered, terminated)
              /\ handledBy' = c
              /\ UNCHANGED <<connecting, uuids, everRegistered>>
     ELSE /\ last' = Answer("DELETE", h, FALSE, InternalErrorStatus, NoCode, keys, keys,
                            everRegistered, terminated)
          /\ handledBy' = 0
          /\ UNCHANGED <<transports, conns, connecting, uuids, everRegistered, terminated>>

\* app.delete('/mcp') for the id of a session whose connection raises in
\* handleRequest: the catch block answers 500, and the delete of the
\* handler, which comes after the await, does not run. The connection
\* closes itself inside handleRequest, so the raise comes before the close
\* (closed is FALSE) or after it and its onclose (closed is TRUE).
DeleteRaises(h, closed) ==
  LET keys == DOMAIN transports
      found == Lookup(transports, h.value)
  IN
  /\ Serving
  /\ HasSessionId(h)
  /\ found.kind = "transport"
  /\ IF closed
     THEN /\ conns' = [conns EXCEPT ![found.conn].closed = TRUE]
          /\ transports' = onclose(transports, conns[found.conn])
     ELSE UNCHANGED <<conns, transports>>
  /\ last' = Answer("DELETE", h, FALSE, InternalErrorStatus, NoCode, keys, DOMAIN transports',
                    everRegistered, terminated)
  /\ handledBy' = found.conn
  /\ UNCHANGED <<connecting, uuids, everRegistered, terminated, serverTransport,
                 stopVars, searchVars>>

\* The close callback of connection c runs (the connection is closed by
\* either peer, or closed again): transport.onclose. Before the connection
\* has a session id the callback has nothing to clean up.
OnClose(c) ==
  /\ c \in 1..Len(conns)
  /\ conns[c].sessionId # ""
  /\ conns' = [conns EXCEPT ![c].closed = TRUE]
  /\ transports' = onclose(transports, conns[c])
  /\ last' = Answer("onclose", Header(conns[c].sessionId), FALSE, 0, NoCode,
                    DOMAIN transports, DOMAIN transports', everRegistered, terminated)
  /\ handledBy' = 0
  /\ UNCHANGED <<connecting, uuids, everRegistered, terminated, serverTransport,
                 stopVars, searchVars>>

----------------------------------------------------------------------------
\* HttpTransport.start and HttpTransport.stop

\* httpServer.listen(port, ...) throws a RangeError for a port that is not
\* in 0..65535 (0 asks for any free port).
ListenAccepts(p) == p.kind = "number" /\ p.value >= 0 /\ p.value <= 65535

\* start(): createServer and listen; the listen callback sets running.
Start ==
  /\ transport = "http"
  /\ ListenAccepts(port)
  /\ httpServer = "none"
  /\ stopState = <<>>
  /\ httpServer' = "listening"
  /\ running' = TRUE
  /\ UNCHANGED <<sockets, forceCloseTimeout, fallbackTimeout, stopState, swept, stopLog,
                 mainVars, sessionVars, searchVars>>

\* A client opens a connection to the listening server, or ends one.
ClientConnects ==
  /\ httpServer = "listening"
  /\ sockets < MaxSockets
  /\ sockets' = sockets + 1
  /\ UNCHANGED <<httpServer, running, forceCloseTimeout, fallbackTimeout, stopState, swept,
                 stopLog, mainVars, sessionVars, searchVars>>

ClientDisconnects ==
  /\ sockets > 0
  /\ sockets' = sockets - 1
  /\ UNCHANGED <<httpServer, running, forceCloseTimeout, fallbackTimeout, stopState, swept,
                 stopLog, mainVars, sessionVars, searchVars>>

\* Object.keys(this.transports): the keys in the order in which they were
\* added, which is the order of the calls of randomUUID that made them.
ObjectKeys(map, made) ==
  LET numbers == Ascending({n \in 1..made : Uuid(n) \in DOMAIN map})
  IN  [k \in 1..Len(numbers) |-> Uuid(numbers[k])]

\* The loop of stop over sessionIds. In the try block transport.close()
\* comes first and the delete second: when close() raises for a session (the
\* ids in failing), the catch block logs a warning and the loop goes on with
\* the next id. A close() that returns has closed the connection and run
\* its onclose. Without a transport under the id only the delete runs.
RECURSIVE Sweep(_, _, _, _)
Sweep(sessionIds, failing, map, cs) ==
  IF sessionIds = <<>>
  THEN [map |-> map, conns |-> cs, log |-> <<>>]
  ELSE LET sessionId == Head(sessionIds)
           found == Lookup(map, sessionId)
           raised == sessionId \in failing
           rest == IF raised
                   THEN Sweep(Tail(sessionIds), failing, map, cs)
                   ELSE IF found.kind = "transport"
                   THEN Sweep(Tail(sessionIds), failing,
                              Delete(onclose(map, cs[found.conn]), sessionId),
                              [cs EXCEPT ![found.conn].closed = TRUE])
                   ELSE Sweep(Tail(sessionIds), failing, Delete(map, sessionId), cs)
       IN  [map |-> rest.map, conns |-> rest.conns,
            log |-> <<[op |-> IF raised THEN "warn" ELSE "closed", session |-> sessionId]>>
                      \o rest.log]

\* httpServer.closeAllConnections(): every open client connection is ended.
\* stop calls it only where the runtime has it; http.Server has it from
\* Node.js 18.2 on, and the model is of such a runtime.
\* (closeIdleConnections leaves a connection that is in use open.)
closeIdleConnections(open) == open
closeAllConnections(open) == 0

\* The entry of stopLog for a call of closeAllConnections.
ForcedLog(open, left) ==
  [op |-> IF left < open THEN "connections terminated" ELSE "no connection terminated",
   session |-> ""]

\* A promise returned by stop: pending until the callback of
\* httpServer.close runs, which gets an error (ERR_SERVER_NOT_RUNNING) when
\* close was called on a server that was not listening.
Promise(state, error) == [state |-> state, error |-> error]
Pending(k) == k \in 1..Len(stopState) /\ stopState[k].state = "pending"
Settled(k) == k \in 1..Len(stopState) /\ stopState[k].state \in {"resolved", "rejected"}

\* process.exit(code), and a process that runs.
Exited(code) == [exited |-> TRUE, code |-> code]
NotExited == [exited |-> FALSE]

\* What a shutdown handler does once the stop it awaits has settled:
\* process.exit(0) after a resolved stop, process.exit(1) after a rejected
\* one. The continuations run in the order in which the promises settled,
\* and the first to run ends the process. settled: the calls that settle
\* in this step, promises: the promises after it.
ExitAfter(settled, promises) ==
  IF settled \cap awaiting' = {}
  THEN exitCode
  ELSE LET first == CHOOSE k \in settled \cap awaiting' :
                      \A m \in settled \cap awaiting' : k <= m
       IN  IF promises[first].state = "resolved" THEN Exited(0) ELSE Exited(1)

\* A call of stop(), the k-th. Without httpServer it resolves at once.
\* Otherwise one run of code sweeps the sessions, arms the timer of 1000 ms,
\* calls httpServer.close, which stops the listening, and arms the timer of
\* 500 ms. A listening server without client connections emits its close
\* event in the next tick, before any other event: the callback clears the
\* timer of 1000 ms, resets running and resolves the promise. On a server
\* that is closing the callback waits for the close event with an error; on
\* a server that has closed the event comes again in the next tick, with
\* the error: the timer of 1000 ms is cleared and the promise rejected.
\* awaiting' tells whether a shutdown handler awaits the call.
StopCall(failing) ==
  LET k == Len(stopState) + 1
  IN
  /\ k <= MaxStops
  /\ IF httpServer = "none"
     THEN /\ failing = {}
          /\ stopState' = Append(stopState, Promise("resolved", FALSE))
          /\ exitCode' = ExitAfter({k}, stopState')
          /\ UNCHANGED <<httpServer, running, forceCloseTimeout, fallbackTimeout, swept,
                         stopLog, transports, conns, last, handledBy>>
     ELSE LET sessionIds == ObjectKeys(transports, uuids)
              done == Sweep(sessionIds, failing, transports, conns)
          IN  /\ failing \subseteq DOMAIN transports
              /\ swept' = DOMAIN transports
              /\ transports' = done.map
              /\ conns' = done.conns
              /\ stopLog' = done.log \o <<[op |-> "httpServer.close", session |-> ""]>>
              /\ fallbackTimeout' = "armed"
              /\ last' = Answer("stop", NoHeader, FALSE, 0, NoCode, DOMAIN transports,
                                DOMAIN transports', everRegistered, terminated)
              /\ handledBy' = 0
              /\ CASE httpServer = "listening" /\ sockets > 0 ->
                        /\ httpServer' = "closing"
                        /\ forceCloseTimeout' = "armed"
                        /\ stopState' = Append(stopState, Promise("pending", FALSE))
                        /\ UNCHANGED <<running, exitCode>>
                   [] httpServer = "listening" /\ sockets = 0 ->
                        /\ httpServer' = "closed"
                        /\ forceCloseTimeout' = "cleared"
                        /\ running' = FALSE
                        /\ stopState' = Append(stopState, Promise("resolved", FALSE))
                        /\ exitCode' = ExitAfter({k}, stopState')
                   [] httpServer = "closing" ->
                        /\ forceCloseTimeout' = "armed"
                        /\ stopState' = Append(stopState, Promise("pending", TRUE))
                        /\ UNCHANGED <<httpServer, running, exitCode>>
                   [] OTHER ->
                        /\ forceCloseTimeout' = "cleared"
                        /\ stopState' = Append(stopState, Promise("rejected", TRUE))
                        /\ exitCode' = ExitAfter({k}, stopState')
                        /\ UNCHANGED <<httpServer, running>>
  /\ UNCHANGED <<sockets, connecting, uuids, everRegistered, terminated,
                 serverTransport, env, argv, config, transport, port, searchVars>>

\* stop() called on the transport (not by a shutdown handler).
Stop(failing) ==
  /\ UNCHANGED awaiting
  /\ StopCall(failing)

\* SIGINT or SIGTERM once main has registered shutdown and called
\* transport.start(): shutdown calls transport.stop() and awaits it.
Signal(failing) ==
  /\ httpServer # "none"
  /\ awaiting' = awaiting \cup {Len(stopState) + 1}
  /\ StopCall(failing)

\* The timer of 500 ms fires. It is never cleared.
FallbackTimeoutFires ==
  /\ fallbackTimeout = "armed"
  /\ fallbackTimeout' = "fired"
  /\ sockets' = closeAllConnections(sockets)
  /\ stopLog' = Append(stopLog, ForcedLog(sockets, sockets'))
  /\ UNCHANGED <<httpServer, running, forceCloseTimeout, stopState, swept, mainVars,
                 sessionVars, searchVars>>

\* The timer of 1000 ms fires, unless the callback of httpServer.close has
\* cleared it; the timer of 500 ms of the same call has fired before.
ForceCloseTimeoutFires ==
  /\ forceCloseTimeout = "armed"
  /\ fallbackTimeout # "armed" \/ Len(stopState) > 1
  /\ forceCloseTimeout' = "fired"
  /\ sockets' = closeAllConnections(sockets)
  /\ stopLog' = Append(stopLog, ForcedLog(sockets, sockets'))
  /\ UNCHANGED <<httpServer, running, fallbackTimeout, stopState, swept, mainVars,
                 sessionVars, searchVars>>

\* The close event of httpServer: the server has stopped listening and its
\* last client connection has ended. The callbacks of httpServer.close run
\* in the order of the calls: each clears its timer of 1000 ms, and rejects
\* its promise if it has an error, or else resets running and resolves it.
\* Then the shutdown handlers go on.
HttpServerClosed ==
  /\ httpServer = "closing"
  /\ sockets = 0
  /\ httpServer' = "closed"
  /\ forceCloseTimeout' = IF forceCloseTimeout = "armed" THEN "cleared" ELSE forceCloseTimeout
  /\ running' = FALSE
  /\ stopState' = [k \in 1..Len(stopState) |->
                     IF Pending(k)
                     THEN Promise(IF stopState[k].error THEN "rejected" ELSE "resolved",
                                  stopState[k].error)
                     ELSE stopState[k]]
  /\ UNCHANGED awaiting
  /\ exitCode' = ExitAfter({k \in 1..Len(stopState) : Pending(k)}, stopState')
  /\ UNCHANGED <<sockets, fallbackTimeout, swept, stopLog, env, argv, config, transport, port,
                 sessionVars, searchVars>>

\* parseInt(text, 10): leading white space is skipped, a sign is read, and
\* the longest run of decimal digits is the value; without a digit the
\* result is NaN.
Digits == "0123456789"
IsDigit(ch) == \E d \in 0..9 : SubSeq(Digits, d + 1, d + 1) = ch
DigitValue(ch) == CHOOSE d \in 0..9 : SubSeq(Digits, d + 1, d + 1) = ch
RECURSIVE DigitsValue(_, _)
DigitsValue(text, value) ==
  IF Len(text) > 0 /\ IsDigit(SubSeq(text, 1, 1))
  THEN DigitsValue(SubSeq(text, 2, Len(text)), 10 * value + DigitValue(SubSeq(text, 1, 1)))
  ELSE value
ParseInt(text) ==
  LET t == TrimStart(text)
      signed == Len(t) > 0 /\ SubSeq(t, 1, 1) \in {"-", "+"}
      digits == IF signed THEN SubSeq(t, 2, Len(t)) ELSE t
  IN  IF Len(digits) = 0 \/ ~IsDigit(SubSeq(digits, 1, 1)) THEN NaN
      ELSE IF signed /\ SubSeq(t, 1, 1) = "-" THEN Num(0 - DigitsValue(digits, 0))
      ELSE Num(DigitsValue(digits, 0))

\* isNaN(port) || port < 1 || port > 65535
PortOutOfRange(p) == p.kind = "NaN" \/ p.value < 1 \/ p.value > 65535

\* new URL(text) without a base, for texts without credentials and without
\* an IPv6 literal: the text needs a scheme (a letter, then letters, digits,
\* "+", "-", "."), ended by ":". After the scheme of a special URL the
\* slashes are skipped and a host is read up to "/", "?" or "#": the host
\* is not empty and has no space, and a port is decimal and at most 65535.
\* After any other scheme the rest is an opaque path.
SpecialSchemes == {"http", "https", "ws", "wss", "ftp"}
IsLetter(ch) == \E k \in 1..26 : SubSeq(LowerLetters, k, k) = ch \/ SubSeq(UpperLetters, k, k) = ch
IsSchemeChar(ch) == IsLetter(ch) \/ IsDigit(ch) \/ ch \in {"+", "-", "."}
IndexOf(text, chars) ==
  IF \E k \in 1..Len(text) : SubSeq(text, k, k) \in chars
  THEN CHOOSE k \in 1..Len(text) :
         /\ SubSeq(text, k, k) \in chars
         /\ \A m \in 1..(k - 1) : SubSeq(text, m, m) \notin chars
  ELSE 0
RECURSIVE SkipSlashes(_)
SkipSlashes(text) ==
  IF Len(text) > 0 /\ SubSeq(text, 1, 1) \in {"/", "\\"}
  THEN SkipSlashes(SubSeq(text, 2, Len(text)))
  ELSE text
HostAndPortParse(authority) ==
  LET colon == IndexOf(authority, {":"})
      host == IF colon = 0 THEN authority ELSE SubSeq(authority, 1, colon - 1)
      portText == IF colon = 0 THEN "" ELSE SubSeq(authority, colon + 1, Len(authority))
  IN  /\ Len(host) > 0
      /\ \A k \in 1..Len(host) : SubSeq(host, k, k) # " "
      /\ \A k \in 1..Len(portText) : IsDigit(SubSeq(portText, k, k))
      /\ DigitsValue(portText, 0) <= 65535
ParsesAsUrl(text) ==
  LET t == Trim(text)
      colon == IndexOf(t, {":"})
  IN  /\ colon > 1
      /\ IsLetter(SubSeq(t, 1, 1))
      /\ \A k \in 1..(colon - 1) : IsSchemeChar(SubSeq(t, k, k))
      /\ ToLowerCase(SubSeq(t, 1, colon - 1)) \in SpecialSchemes =>
           LET rest == SkipSlashes(SubSeq(t, colon + 1, Len(t)))
               stop == IndexOf(rest, {"/", "?", "#"})
               authority == IF stop = 0 THEN rest ELSE SubSeq(rest, 1, stop - 1)
           IN  HostAndPortParse(authority)

\* loadConfig reads process.env: SEARXNG_URL is required, USERNAME and
\* PASSWORD come together, and PORT is tested when TRANSPORT is "http".
loadConfig(e) ==
  LET type == IF Truthy(e.TRANSPORT) THEN e.TRANSPORT.text ELSE "stdio"
      envPort == IF Truthy(e.PORT) THEN ParseInt(e.PORT.text) ELSE Num(3000)
  IN  IF ~Truthy(e.SEARXNG_URL)
      THEN Threw("SEARXNG_URL environment variable is required!")
      ELSE IF Truthy(e.USERNAME) # Truthy(e.PASSWORD)
      THEN Threw("Invalid Basic Auth configuration!")
      ELSE IF type = "http" /\ PortOutOfRange(envPort)
      THEN Threw("Invalid PORT configuration!")
      ELSE Resolved([url |-> e.SEARXNG_URL,
                     auth |-> Truthy(e.USERNAME) /\ Truthy(e.PASSWORD),
                     type |-> type,
                     host |-> IF type = "http" THEN Str("0.0.0.0") ELSE Undefined,
                     port |-> IF type = "http" THEN envPort ELSE Undefined])

\* main overrides the transport settings from the command line.
CliOverrides(c, a) ==
  [c EXCEPT !.type = a.transport,
            !.host = IF a.transport = "http" THEN a.host ELSE @,
            !.port = IF a.transport = "http" THEN a.port ELSE @]

\* validateConfig: the URL is there and parses, the transport type is
\* known, and an HTTP transport has a host and a port.
validateConfig(c) ==
  IF ~Truthy(c.url) THEN Threw("SearXNG URL is required")
  ELSE IF ~ParsesAsUrl(c.url.text) THEN Threw("Invalid SearXNG URL format!")
  ELSE IF c.type \notin {"stdio", "http"} THEN Threw("Invalid transport type!")
  ELSE IF c.type = "http" /\ (~Truthy(c.host) \/ ~Truthy(c.port))
  THEN Threw("Incomplete HTTP transport configuration!")
  ELSE Resolved(c)

\* The environment and command line of a server on HTTP with the default
\* port.
DefaultEnv ==
  [SEARXNG_URL |-> Str("http://localhost:8080"), USERNAME |-> Undefined,
   PASSWORD |-> Undefined, TRANSPORT |-> Undefined, PORT |-> Undefined]
HttpArgv == [transport |-> "http", host |-> Str("0.0.0.0"), port |-> Num(3000)]

\* No transport has been started, and the process runs.
TransportIdle ==
  /\ transports = <<>>
  /\ conns = <<>>
  /\ connecting = {}
  /\ uuids = 0
  /\ everRegistered = {}
  /\ terminated = {}
  /\ last = NoAnswer
  /\ handledBy = 0
  /\ serverTransport = 0
  /\ httpServer = "none"
  /\ running = FALSE
  /\ sockets = 0
  /\ forceCloseTimeout = "unset"
  /\ fallbackTimeout = "unset"
  /\ stopState = <<>>
  /\ swept = {}
  /\ stopLog = <<>>
  /\ awaiting = {}
  /\ exitCode = NotExited

\* main has made an HttpTransport for the default port.
HttpInit ==
  /\ TransportIdle
  /\ env = DefaultEnv
  /\ argv = HttpArgv
  /\ config = CliOverrides(loadConfig(env).data, argv)
  /\ transport = "http"
  /\ port = Num(3000)

\* What the transport does apart from stop.
HttpServe ==
  \/ Start
  \/ ClientConnects
  \/ ClientDisconnects
  \/ \E h \in Headers, isInitialize \in BOOLEAN : Post(h, isInitialize)
  \/ \E pending \in connecting : ConnectResolves(pending.conn, pending.header)
  \/ \E h \in Headers : Get(h)
  \/ \E h \in Headers : DeleteSession(h)
  \/ \E c \in 1..Len(conns) : OnClose(c)
  \/ FallbackTimeoutFires
  \/ ForceCloseTimeoutFires
  \/ HttpServerClosed

HttpNext ==
  \/ HttpServe
  \/ \E failing \in SUBSET DOMAIN transports : Stop(failing)

\* The transport with a Server or a connection that can raise: in
\* server.connect, and in handleRequest for an initialize or a DELETE.
HttpFaultNext ==
  \/ HttpNext
  \/ \E pending \in connecting : ConnectRejects(pending.conn, pending.header)
  \/ \E pending \in connecting, registered \in BOOLEAN :
       HandleRequestRaises(pending.conn, pending.header, registered)
  \/ \E h \in Headers, closed \in BOOLEAN : DeleteRaises(h, closed)

\* process.exit has not been called.
ProcessAlive == exitCode = NotExited

\* The process under signals: it serves until a shutdown handler has
\* called process.exit.
ShutdownNext ==
  \/ ProcessAlive /\ Start
  \/ ProcessAlive /\ ClientConnects
  \/ ProcessAlive /\ ClientDisconnects
  \/ ProcessAlive /\ \E h \in Headers, isInitialize \in BOOLEAN : Post(h, isInitialize)
  \/ ProcessAlive /\ \E pending \in connecting : ConnectResolves(pending.conn, pending.header)
  \/ ProcessAlive /\ \E h \in Headers : Get(h)
  \/ ProcessAlive /\ \E h \in Headers : DeleteSession(h)
  \/ ProcessAlive /\ \E c \in 1..Len(conns) : OnClose(c)
  \/ ProcessAlive /\ FallbackTimeoutFires
  \/ ProcessAlive /\ ForceCloseTimeoutFires
  \/ ProcessAlive /\ HttpServerClosed
  \/ ProcessAlive /\ \E failing \in SUBSET DOMAIN transports : Signal(failing)

----------------------------------------------------------------------------
\* main

\* The environments and command lines main is started with. yargs takes
\* --transport from stdio and http, and gives NaN for a --port that is not
\* a number.
Urls ==
  {Undefined, Str(""), Str("search.example.com"), Str("localhost:8080"), Str("http://"),
   Str("http://localhost:8080"), Str("https://search.example.com/"),
   Str("http://localhost:99999")}
Envs ==
  [SEARXNG_URL : Urls,
   USERNAME : {Undefined, Str("user")},
   PASSWORD : {Undefined, Str("secret")},
   TRANSPORT : {Undefined, Str("stdio"), Str("http")},
   PORT : {Undefined, Str("8080"), Str("0"), Str("70000"), Str("-1"), Str("abc")}]
Argvs ==
  [transport : {"stdio", "http"},
   host : {Str("0.0.0.0")},
   port : {Num(3000), Num(1), Num(65535), Num(0), Num(65536), Num(70000), Num(0 - 1), NaN}]

\* main has not loaded its configuration.
MainInit ==
  /\ TransportIdle
  /\ env \in Envs
  /\ argv \in Argvs
  /\ config = NotCalled
  /\ transport = "none"
  /\ port = Undefined

\* main up to the connection test: loadConfig, the overrides from the
\* command line, validateConfig. What either throws is caught by main,
\* which calls process.exit(1).
Main ==
  /\ ProcessAlive
  /\ config = NotCalled
  /\ LET loaded == loadConfig(env)
     IN  IF ~loaded.ok
         THEN /\ exitCode' = Exited(1)
              /\ UNCHANGED config
         ELSE LET overridden == CliOverrides(loaded.data, argv)
              IN  /\ config' = overridden
                  /\ exitCode' = IF validateConfig(overridden).ok THEN exitCode ELSE Exited(1)
  /\ UNCHANGED <<env, argv, transport, port, awaiting, sessionVars, httpServer, running,
                 sockets, forceCloseTimeout, fallbackTimeout, stopState, swept, stopLog,
                 searchVars>>

\* The connection test has settled (main goes on whatever it says): main
\* creates the transport, registers shutdown and calls transport.start().
\* start of the HTTP transport creates the server and calls listen, which
\* throws for a port it does not accept: start rejects, main catches and
\* calls process.exit(1).
ConnectionTested ==
  /\ ProcessAlive
  /\ config # NotCalled
  /\ transport = "none"
  /\ transport' = config.type
  /\ port' = config.port
  /\ IF config.type = "http" /\ ~ListenAccepts(config.port)
     THEN /\ httpServer' = "created"
          /\ exitCode' = Exited(1)
     ELSE UNCHANGED <<httpServer, exitCode>>
  /\ UNCHANGED <<env, argv, config, awaiting, sessionVars, running, sockets,
                 forceCloseTimeout, fallbackTimeout, stopState, swept, stopLog, searchVars>>

\* start of the stdio transport: server.connect has resolved.
StdioStart ==
  /\ ProcessAlive
  /\ transport = "stdio"
  /\ ~running
  /\ running' = TRUE
  /\ UNCHANGED <<sessionVars, httpServer, sockets, forceCloseTimeout, fallbackTimeout,
                 stopState, swept, stopLog, mainVars, searchVars>>

MainNext ==
  \/ Main
  \/ ConnectionTested
  \/ ProcessAlive /\ Start
  \/ StdioStart

----------------------------------------------------------------------------
\* The specifications: the fan-out executor for every query list, and the
\* HTTP transport serving requests.

Init == SearchInit /\ HttpInit
Next == SearchNext
Spec == Init /\ [][Next]_vars

\* formatResponse on every MultiSearchResult of up to MaxQueries outcomes.
FormatOnlyInit == FormatInit /\ HttpInit
FormatSpec == FormatOnlyInit /\ [][FormatNext]_vars

\* No search runs while the transport is observed.
HttpOnlyInit == queries = <<>> /\ args = NotCalled /\ SearchInit /\ HttpInit
HttpSpec == HttpOnlyInit /\ [][HttpNext]_vars

\* The event loop runs a timer that is due and the callback of
\* httpServer.close once the server has closed; a client need never
\* disconnect.
HttpLiveSpec ==
  /\ HttpOnlyInit
  /\ [][HttpNext]_vars
  /\ WF_vars(FallbackTimeoutFires)
  /\ WF_vars(ForceCloseTimeoutFires)
  /\ WF_vars(HttpServerClosed)

\* The transport serving requests, with connections that can raise.
HttpFaultSpec == HttpOnlyInit /\ [][HttpFaultNext]_vars

\* The transport of a process that handles SIGINT and SIGTERM.
ShutdownSpec == HttpOnlyInit /\ [][ShutdownNext]_vars

\* main from its start, for every environment and command line, until the
\* transport has started or the process has exited.
MainOnlyInit == queries = <<>> /\ args = NotCalled /\ SearchInit /\ MainInit
MainSpec == MainOnlyInit /\ [][MainNext]_vars

\* The event loop runs the callback of a setTimeout that is due (the timers
\* of searchSingle); the backend and the network need never answer.
SearchLiveSpec ==
  /\ Init
  /\ [][Next]_vars
  /\ WF_vars(\E i \in Tasks : TimeoutFires(i))

----------------------------------------------------------------------------
\* Properties of the fan-out executor, checked under Spec.

\* C1: for a non-empty query list, the results of search have the length of
\* the input and results[i].query = queries[i] for every i, in whatever
\* order the upstream calls completed.
C1_ResultsInQueryOrder ==
  (Len(queries) > 0 /\ searchState = "fulfilled") =>
    /\ Len(multiResult.results) = Len(queries)
    /\ multiResult.queries = queries
    /\ \A i \in Tasks : multiResult.results[i].query = queries[i]

\* search has returned for two different queries whose calls completed in
\* the opposite order.
C1_Witness ==
  /\ searchState = "fulfilled"
  /\ Len(queries) >= 2
  /\ queries[1] # queries[2]
  /\ arrival[1] = 2

\* C2: in every result of search, summary.total is the number of queries,
\* summary.successful the number of outcomes with success = true, and
\* successful + failed = total.
C2_SummaryCounts ==
  searchState = "fulfilled" =>
    /\ multiResult.summary.total = Len(queries)
    /\ multiResult.summary.successful =
         Cardinality({i \in Tasks : task[i].value.success})
    /\ multiResult.summary.successful + multiResult.summary.failed =
         multiResult.summary.total

\* search has returned a batch with a succeeded query (one of them with a
\* null body) and a failed one.
C2_Witness ==
  /\ searchState = "fulfilled"
  /\ multiResult.summary.failed >= 1
  /\ \E i \in Tasks : multiResult.results[i].success /\ multiResult.results[i].data = Null

\* C3: a query whose own upstream call delivered a 2xx response with a
\* parsable body has success = true and that body as its data, in its task
\* and in the result of search, whatever happened to the other queries; and
\* a request is aborted only by its own timer.
C3_FailuresAreIsolated ==
  \A i \in Tasks :
    /\ upstream[i].event = "body" =>
         /\ task[i].state = "fulfilled"
         /\ task[i].value.success
         /\ task[i].value.query = queries[i]
         /\ task[i].value.data = upstream[i].body
         /\ searchState = "fulfilled" => multiResult.results[i] = task[i].value
    /\ upstream[i].event = "aborted" => timer[i] = "fired"

\* search has returned a batch in which one call timed out first and a
\* sibling still succeeded afterwards.
C3_Witness ==
  /\ searchState = "fulfilled"
  /\ Len(arrival) >= 2
  /\ upstream[arrival[1]].event = "aborted"
  /\ \E j \in Tasks : upstream[j].event = "body" /\ multiResult.results[j].success

\* Once search has settled for a non-empty batch it is fulfilled, and every
\* call of the batch has settled.
C4_JoinState ==
  (Len(queries) > 0 /\ searchState \in {"fulfilled", "rejected"}) =>
    /\ searchState = "fulfilled"
    /\ \A i \in Tasks : call[i] = "done" /\ task[i].state = "fulfilled"
\* A step in which the call of task i fails changes no other call.
C4_FailureStep ==
  \A i \in Tasks :
    (call[i] \in {"fetch", "json"} /\ call'[i] = "done" /\ ~task'[i].value.success) =>
      \A j \in Tasks \ {i} :
        call'[j] = call[j] /\ upstream'[j] = upstream[j] /\ task'[j] = task[j]
\* C4: search is a join-all barrier: its result is produced only after every
\* per-query call of the batch has settled, never early when a first call
\* fails, and the failure of one call cancels no sibling in flight.
C4_JoinAllBarrier == []C4_JoinState /\ [][C4_FailureStep]_searchVars

\* A first call has failed, a sibling is still in flight, and search is
\* still pending.
C4_Witness ==
  /\ searchState = "pending"
  /\ \E i \in Tasks : task[i].state = "fulfilled" /\ ~task[i].value.success
  /\ \E j \in Tasks : call[j] = "fetch" /\ task[j].state = "pending"

\* C5: search with an empty query list fails with the validation error, and
\* no upstream request has been issued.
C5_EmptyBatchRejected ==
  (Len(queries) = 0 /\ toolState # "idle") =>
    /\ searchState = "rejected"
    /\ multiResult = Str(EmptyBatchMessage)
    /\ sent = <<>>

C5_Witness ==
  /\ Len(queries) = 0
  /\ searchState = "rejected"
  /\ toolState = "rejected"

\* C6: for every non-empty list of valid queries and every upstream
\* behaviour, executeSearch returns a response with one entry per query and
\* does not raise.
C6_ExecuteSearchNeverRaises ==
  (Len(queries) > 0 /\ toolState \in {"fulfilled", "rejected"}) =>
    /\ toolState = "fulfilled"
    /\ Len(toolResponse.searches) = Len(queries)

\* Once the batch is launched, one request has been sent for each query.
C7_OneRequestEach ==
  /\ Len(sent) = (IF toolState = "idle" THEN 0 ELSE Len(queries))
  /\ \A i \in Tasks : toolState # "idle" => Requests(i) = 1
\* A failed outcome stays as it is, and no request follows it.
C7_FailureIsFinal ==
  \A i \in Tasks :
    (task[i].state = "fulfilled" /\ ~task[i].value.success) =>
      (task'[i] = task[i] /\ sent' = sent)
----------------------------------------------------------------------------
\* Properties of the HTTP transport, checked under HttpSpec.

C9_UnknownOrMissingIdRejected ==
  LET unknown == HasSessionId(last.header) /\ last.header.value \notin last.before
      missing == ~HasSessionId(last.header) /\ ~(last.method = "POST" /\ last.init)
  IN  (last.method \in {"POST", "GET", "DELETE"} /\ (unknown \/ missing)) =>
        /\ last.status = BadRequestStatus
        /\ last.after = last.before
        /\ DOMAIN transports = last.after

C11_CloseIsIdempotent ==
  LET token == last.header.value
      closedBefore == (last.everBefore \ last.before) \cup swept
  IN  (last.method \in {"DELETE", "onclose"} /\ HasSessionId(last.header)
         /\ token \in closedBefore) =>
        /\ last.status # InternalErrorStatus
        /\ token \notin last.after
        /\ last.after = last.before \ {token}
        /\ DOMAIN transports = last.after

\* The close callback has run for a session that a DELETE had terminated
\* before, while another session is open.
C11_Witness ==
  /\ last.method = "onclose"
  /\ last.header.value \in last.terminatedBefore
  /\ last.before # {}
  /\ last.after = last.before

\* C12: every token of the session map maps to one live connection whose
\* own session id is that token, and no connection is registered under two
\* tokens.
C12_OneLiveConnectionPerToken ==
  /\ \A t \in DOMAIN transports :
       /\ transports[t] \in 1..Len(conns)
       /\ conns[transports[t]].sessionId = t
       /\ ~conns[transports[t]].closed
  /\ \A t1, t2 \in DOMAIN transports : transports[t1] = transports[t2] => t1 = t2

\* A session is open while the connection of another session has been
\* closed and removed.
C12_Witness ==
  /\ DOMAIN transports # {}
  /\ \E c \in 1..Len(conns) : conns[c].closed /\ conns[c].sessionId \notin DOMAIN transports

\* C13: a POST or GET that carries the token of an open session is handled
\* by the connection registered under that token, and by no other.
C13_RoutedToOwnConnection ==
  (last.method \in {"POST", "GET"} /\ HasSessionId(last.header)
     /\ last.header.value \in last.before) =>
    /\ handledBy \in 1..Len(conns)
    /\ conns[handledBy].sessionId = last.header.value

\* Two sessions are open, and a GET with the token of the younger one has
\* been handled by its connection.
C13_Witness ==
  /\ last.method = "GET"
  /\ Cardinality(last.before) = 2
  /\ handledBy = 2
  /\ conns[2].sessionId = last.header.value

\* C14: each session owns its RPC-layer connection: no step (initializing
\* or closing another session) rebinds the RPC layer that answers the
\* requests of a session that is and stays open.
C14_RpcConnectionNotRebound ==
  [][\A t \in DOMAIN transports \cap DOMAIN transports' :
       serverTransport = transports[t] => serverTransport' = transports[t]]_vars

\* C15: a closed session is closed for good: a token that has been removed
\* from the map is never a key of the map again.
C15_ClosedIsTerminal ==
  [][\A t \in everRegistered \ DOMAIN transports : t \notin DOMAIN transports']_vars

\* An initialize POST that carries the token of a closed session has been
\* answered, while a later session is open.
C15_Witness ==
  /\ last.method = "POST" /\ last.init
  /\ HasSessionId(last.header)
  /\ last.header.value \in last.everBefore \ last.before
  /\ DOMAIN transports # {}
  /\ last.header.value \notin DOMAIN transports

\* C16: stop attempts to close every session that is open when it is called
\* and removes each of them from the map, also when closing one of them
\* fails, and calls httpServer.close only after the sweep.
C16_StopSweepsEverySession ==
  last.method = "stop" =>
    /\ \A t \in swept : \E k \in 1..Len(stopLog) : stopLog[k].session = t
    /\ \A t \in swept : t \notin last.after
    /\ \A k \in 1..Len(stopLog) :
         stopLog[k].op = "httpServer.close" =>
           \A t \in swept : \E j \in 1..(k - 1) : stopLog[j].session = t

----------------------------------------------------------------------------
\* Properties of the search tool handler, checked under Spec.

\* C18: a call of the search tool whose queries argument is missing, not an
\* array or empty, or has an entry that is not a string or is blank after
\* trimming, is rejected with an argument-validation error before
\* executeSearch is called and before any upstream request.
C18_InvalidQueriesRejected ==
  LET missing == args.kind = "undefined" \/ args.queries.kind \in {"undefined", "null"}
      invalid == \/ missing
                 \/ args.queries.kind # "array"
                 \/ Len(args.queries.items) = 0
                 \/ \E k \in 1..Len(args.queries.items) :
                      \/ args.queries.items[k].kind # "string"
                      \/ Trim(args.queries.items[k].text) = ""
  IN  (args # NotCalled /\ handlerState # "idle" /\ invalid) =>
        /\ handlerState = "rejected"
        /\ handlerResult \in {Str(QueriesRequiredMessage), Str(QueriesStringsMessage)}
        /\ toolState = "idle"
        /\ sent = <<>>

\* C19: with valid queries, a call with a safesearch number outside 0..2 is
\* rejected by the argument validation before any upstream request, and a
\* call with safesearch 0, 1 or 2 is accepted and every upstream request of
\* the batch carries that value.
C19_SafesearchRange ==
  (args # NotCalled /\ handlerState # "idle" /\ args.kind = "object"
     /\ ValidateArguments([args EXCEPT !.safesearch = Undefined]).ok
     /\ args.safesearch.kind = "number") =>
    IF args.safesearch.value \in 0..2
    THEN /\ toolState # "idle"
         /\ Len(sent) = Len(args.queries.items)
         /\ \A i \in 1..Len(sent) :
              /\ urls[sent[i]].q = args.queries.items[sent[i]].text
              /\ urls[sent[i]].safesearch = Str(ToString(args.safesearch.value))
    ELSE /\ handlerState = "rejected"
         /\ handlerResult = Str(SafesearchRangeMessage)
         /\ toolState = "idle"
         /\ sent = <<>>

\* A call with two queries and safesearch 0 has been answered, with the
\* level in both requests.
C19_Witness ==
  /\ args # NotCalled
  /\ handlerState = "fulfilled"
  /\ Len(sent) = 2
  /\ \A i \in 1..2 : urls[i].safesearch = Str("0")

----------------------------------------------------------------------------
\* Properties of formatResponse, checked under FormatSpec.

\* C20: in what formatResponse returns, the entry of every failed outcome
\* has the outcome's query, results = [], total_results = 0, success = false,
\* and as error the outcome's message, or "Unknown error" when the outcome
\* has none (null or the empty string).
C20_FailedOutcomeNormalized ==
  (formatOutput # NotCalled /\ formatOutput.ok) =>
    \A i \in 1..Len(formatInput.results) :
      LET outcome == formatInput.results[i]
          entry == formatOutput.data.searches[i]
      IN  ~outcome.success =>
            entry = [query |-> outcome.query,
                     results |-> <<>>,
                     total_results |-> 0,
                     success |-> FALSE,
                     error |-> IF outcome.error = Null \/ outcome.error = Str("")
                               THEN "Unknown error"
                               ELSE outcome.error.text]

\* formatResponse has returned for a failed outcome with a message next to
\* a failed outcome without one.
C20_Witness ==
  /\ formatOutput # NotCalled
  /\ formatOutput.ok
  /\ Len(formatInput.results) = 2
  /\ formatInput.results[1].error = Null
  /\ ~formatInput.results[2].success
  /\ formatInput.results[2].error # Null
  /\ formatOutput.data.searches[2].error # "Unknown error"

----------------------------------------------------------------------------
\* Properties of the outcomes and of their normalization, from the upstream
\* response to the tool response, checked under Spec.

\* C21: every successful outcome of search is normalized to an entry with
\* success = true, the outcome's query, total_results equal to the count the
\* backend reported, and one result per backend item, in the same order,
\* with title, link and snippet from the item's title, url and content and
\* no other field.
C21_SuccessfulOutcomeNormalized ==
  toolState = "fulfilled" =>
    \A i \in 1..Len(multiResult.results) :
      LET outcome == multiResult.results[i]
          entry == toolResponse.searches[i]
      IN  outcome.success =>
            /\ entry.success
            /\ entry.query = outcome.query
            /\ entry.total_results = outcome.data.number_of_results
            /\ entry.results =
                 [k \in 1..Len(outcome.data.results) |->
                    [title |-> outcome.data.results[k].title,
                     link |-> outcome.data.results[k].url,
                     snippet |-> outcome.data.results[k].content]]

\* C22: formatResponse is total: for every aggregate result that search
\* returns, also one with a successful outcome whose body is null or has no
\* results list, it returns a response with one entry per outcome, in the
\* order of the outcomes, and does not raise.
C22_NormalizerIsTotal ==
  searchState = "fulfilled" =>
    /\ toolState = "fulfilled"
    /\ Len(toolResponse.searches) = Len(multiResult.results)
    /\ \A i \in 1..Len(multiResult.results) :
         toolResponse.searches[i].query = multiResult.results[i].query

C24_UpstreamCallSettles ==
  /\ \A i \in 1..MaxQueries :
       (i \in Tasks /\ call[i] \in {"fetch", "json"}) ~> (i \in Tasks /\ call[i] = "done")
  /\ (searchState = "pending") ~> (searchState \in {"fulfilled", "rejected"})

C26_LanguageParameter ==
  (args # NotCalled /\ handlerState # "idle" /\ args.kind = "object"
     /\ ValidateArguments([args EXCEPT !.language = Undefined]).ok) =>
    LET supplied == args.language
        clean == IF supplied.kind = "string" THEN ToLowerCase(Trim(supplied.text)) ELSE ""
        listed == /\ supplied.kind = "string"
                  /\ MatchesLanguageFormat(clean)
                  /\ clean \in VALID_LANGUAGE_CODES
    IN  /\ toolState # "idle"
        /\ Len(sent) = Len(args.queries.items)
        /\ Len(urls) = Len(args.queries.items)
        /\ \A i \in 1..Len(urls) :
             /\ urls[i].language # Undefined <=> listed
             /\ listed => urls[i].language = Str(clean)
             /\ supplied \in {Str("en"), Str("zh-cn")} => urls[i].language = supplied
             /\ supplied \in {Str("zz"), Str("xx-yy")} => urls[i].language = Undefined

\* A call with two queries and the language " Zh-CN " has been answered,
\* with zh-cn in both requests.
C26_Witness ==
  /\ args # NotCalled
  /\ handlerState = "fulfilled"
  /\ args.language = Str(" Zh-CN ")
  /\ Len(urls) = 2
  /\ \A i \in 1..2 : urls[i].language = Str("zh-cn")

----------------------------------------------------------------------------
\* More properties of the HTTP transport, checked under HttpSpec.

\* C29: a request rejected for a missing or unknown session id leaves every
\* session untouched: the map is as before and its entries are open
\* connections; and a POST, GET or DELETE that follows the rejection and
\* carries the id of an open session is handled by that session's connection.
C29_RejectionLeavesSessions ==
  /\ TransportError(last) =>
       /\ last.after = last.before
       /\ DOMAIN transports = last.before
       /\ \A t \in DOMAIN transports :
            conns[transports[t]].sessionId = t /\ ~conns[transports[t]].closed
  /\ (last.afterRejected /\ last.method \in {"POST", "GET", "DELETE"} /\ ~last.init
        /\ HasSessionId(last.header) /\ last.header.value \in last.before) =>
       /\ last.status = OkStatus
       /\ handledBy \in 1..Len(conns)
       /\ conns[handledBy].sessionId = last.header.value

\* With two sessions open, a GET with the id of the younger one has been
\* handled by its connection right after a rejected request.
C29_Witness ==
  /\ last.afterRejected
  /\ last.method = "GET"
  /\ last.status = OkStatus
  /\ Cardinality(last.before) = 2
  /\ handledBy = 2
  /\ conns[2].sessionId = last.header.value

----------------------------------------------------------------------------
\* The retry of the README, checked under Spec.

\* C30: on a network error the upstream request is retried: a query is
\* reported as failed on the network only after 3 attempts.
C30_RetriesBeforeFailure ==
  \A i \in Tasks :
    (task[i].state = "fulfilled" /\ ~task[i].value.success
       /\ upstream[i].event = "network") =>
      Requests(i) = 3

----------------------------------------------------------------------------
\* Properties of the process under signals, checked under ShutdownSpec.

\* C27: on every SIGINT or SIGTERM the process stops the transport and then
\* exits, with status 0 when the stop succeeded and with a non-zero status
\* when it failed: it never exits with 0 after a stop that failed, also when
\* a second signal arrives while the first shutdown runs.
C27_ExitStatusFollowsStop ==
  exitCode.exited =>
    /\ awaiting # {}
    /\ \E k \in awaiting : Settled(k)
    /\ exitCode.code = 0 => \A k \in awaiting : stopState[k].state = "resolved"
    /\ exitCode.code # 0 => \E k \in awaiting : stopState[k].state = "rejected"

----------------------------------------------------------------------------
\* Properties of startup, checked under MainSpec.

\* C28: when the backend URL is missing or does not parse as a URL, or the
\* HTTP port is outside 1..65535 (the PORT of an environment that asks for
\* HTTP, or the --port of a command line that asks for HTTP), main gets no
\* further than the validation of its configuration: once the
\* configuration is there the process has exited with a non-zero status,
\* and no transport is ever created or started.
C28_StartupAborted ==
  LET urlMissingOrInvalid ==
        \/ ~Truthy(env.SEARXNG_URL)
        \/ ~ParsesAsUrl(env.SEARXNG_URL.text)
      envPortOutOfRange ==
        /\ env.TRANSPORT = Str("http")
        /\ Truthy(env.PORT)
        /\ PortOutOfRange(ParseInt(env.PORT.text))
      cliPortOutOfRange ==
        /\ argv.transport = "http"
        /\ PortOutOfRange(argv.port)
  IN  (urlMissingOrInvalid \/ envPortOutOfRange \/ cliPortOutOfRange) =>
        /\ config # NotCalled => exitCode.exited
        /\ exitCode.exited => exitCode.code # 0
        /\ transport = "none"
        /\ httpServer = "none"
        /\ ~running

----------------------------------------------------------------------------
\* Properties of the transport while it stops, checked under HttpSpec.

\* C31: once a call of stop has resolved the session map is empty, whatever
\* requests were in flight when stop swept the sessions.
C31_StoppedWithoutSessions ==
  (\E k \in 1..Len(stopState) : stopState[k].state = "resolved") =>
    DOMAIN transports = {}

\* C32: a POST /mcp that carries the header mcp-session-id creates no
\* session, whatever its body: the map is as before the request; with a
\* value that is not a key of the map the answer is the bad-request error,
\* and with the id of a session the request goes to that session's
\* connection.
C32_TokenNeverCreatesSession ==
  (last.method = "POST" /\ last.header.present) =>
    /\ last.after = last.before
    /\ last.header.value \notin last.before =>
         /\ last.status = BadRequestStatus
         /\ last.code = BadRequestCode
    /\ last.header.value \in last.before =>
         /\ handledBy \in 1..Len(conns)
         /\ conns[handledBy].sessionId = last.header.value

----------------------------------------------------------------------------
\* The summary of the tool response, checked under Spec.

\* C33: in every response of the search tool the summary counts the
\* entries: successful_queries is the number of entries of searches with
\* success = true, failed_queries the number with success = false, and
\* total_queries the length of searches.
C33_SummaryCountsEntries ==
  toolState = "fulfilled" =>
    LET searches == toolResponse.searches
    IN  /\ toolResponse.summary.successful_queries =
             Cardinality({i \in 1..Len(searches) : searches[i].success})
        /\ toolResponse.summary.failed_queries =
             Cardinality({i \in 1..Len(searches) : ~searches[i].success})
        /\ toolResponse.summary.total_queries = Len(searches)

----------------------------------------------------------------------------
\* Properties of the transport with connections that raise, checked under
\* HttpFaultSpec.

\* C34: once a DELETE /mcp with the id of a session has been answered,
\* whatever the status, the id is not a key of the session map: also when
\* the connection's handleRequest raised and the answer is 500.
C34_DeleteAlwaysRemoves ==
  (last.method = "DELETE" /\ HasSessionId(last.header)
     /\ last.header.value \in last.before) =>
    /\ last.header.value \notin last.after
    /\ last.header.value \notin DOMAIN transports

\* C35: an initialize POST that is answered 500, because server.connect or
\* handleRequest raised, leaves the session map as it was before the
\* request.
C35_FailedInitializeLeavesMap ==
  (last.method = "POST" /\ last.init /\ last.status = InternalErrorStatus) =>
    /\ last.after = last.before
    /\ DOMAIN transports = last.before

----------------------------------------------------------------------------
\* Repeated calls of stop, checked under HttpSpec.

\* C36: stop is idempotent: no call of stop is rejected, whether it comes
\* before the transport has started, while an earlier call is pending or
\* after one has settled; and once a call has resolved isRunning() is false.
C36_StopIsIdempotent ==
  /\ \A k \in 1..Len(stopState) : stopState[k].state # "rejected"
  /\ (\E k \in 1..Len(stopState) : stopState[k].state = "resolved") => ~running

====
